---- MODULE Spec2Model ----
(***************************************************************************)
(* A model of python/kinesis/kinesis_writer.py: the KinesisWriter queue,   *)
(* its admission validation (QueuedMessage), batch splitting, and the      *)
(* rebuilding of the queue from the result of put_records.                 *)
(*                                                                         *)
(* Byte quantities are the program's own numbers. The record-count         *)
(* threshold (500 in the source, twice) is scaled to 6, the smallest value *)
(* for which the byte threshold (five maximum-size records) can be reached *)
(* before the count threshold.                                             *)
(*                                                                         *)
(* A text value is modelled by the number of its one-byte and two-byte     *)
(* characters, a bytes value by its length. A QueuedMessage carries `id',  *)
(* its position in the order of admission, which stands for the identity   *)
(* of the Python object.                                                   *)
(*                                                                         *)
(* A model of python/kinesis/kinesis_reader.py follows it: KinesisReader   *)
(* and its Shard objects, reading a stream whose shards hold records with  *)
(* the sequence numbers 0, 1, 2, ... A shard iterator is modelled by the   *)
(* position in the shard that it points to, as in the mock client of       *)
(* tests/test_kinesis_reader.py. Shards are indexed from 0, as in Python.  *)
(*                                                                         *)
(* Last comes a model of buildBatch of                                     *)
(* lambda/cloudwatch-logs-to-kinesis/lambda_function.py and of build_batch *)
(* of lambda/cloudwatch-log-transform/lambda_function.py. A record is      *)
(* modelled by the lengths of its Data and PartitionKey and by `id', its   *)
(* position in the first list, which stands for its identity. The record   *)
(* count of a batch (500 in the source) is scaled to 3; the byte limit is  *)
(* the program's own number.                                               *)
(***************************************************************************)
EXTENDS Integers, Sequences, FiniteSets, TLC

VARIABLES
    _queue,                         \* self._queue
    _bytes_in_queue,                \* self._bytes_in_queue
    last_batch_size,                \* self.last_batch_size
    last_batch_success_count,       \* self.last_batch_success_count
    last_batch_failure_messages,    \* self.last_batch_failure_messages
    admitted,                       \* history: number of messages admitted so far
    sent,                           \* history: id -> times counted in last_batch_success_count
    call,                           \* history: the most recent enqueue()/flush() call and its outcome
    rejections                      \* service: put_records calls that rejected something (budgeted runs)

vars == <<_queue, _bytes_in_queue, last_batch_size, last_batch_success_count,
          last_batch_failure_messages, admitted, sent, call, rejections>>

VARIABLES
    stream,                         \* service: shard index -> number of records stored in the shard
    StreamStatus,                   \* service: the StreamStatus of the stream
    page_size,                      \* service: the most shards that one list_shards returns
    read_limit,                     \* service: the most records that one get_records returns
    _shards,                        \* self._shards: shard index -> the Shard object's fields
    _current_shard_idx,             \* self._current_shard_idx
    _current_shard,                 \* self._current_shard, as the index of the Shard it refers to
    returned,                       \* history: the records returned by read() of this reader
    earlier,                        \* history: the records returned by the readers before this one
    reads,                          \* history: number of read() calls on this reader (up to MaxReads)
    expiries,                       \* service: get_records calls that raised ExpiredIteratorException
    failures,                       \* service: get_records calls that raised another error
    behind,                         \* history: shard -> MillisBehindLatest of its last completed get_records
    first_cursor,                   \* history: shard -> the position of the first iterator issued for it
    readers,                        \* history: number of readers constructed on the stream
    constructed,                    \* history: the from_trim_horizon and from_offsets of this reader
    rcall,                          \* history: the most recent call on the reader and its outcome
    ccall                           \* history: the most recent KinesisReader(...) call and its outcome

rvars == <<stream, StreamStatus, page_size, read_limit, _shards, _current_shard_idx, _current_shard,
           returned, earlier, reads, expiries, failures, behind, first_cursor, readers, constructed,
           rcall, ccall>>

VARIABLES
    pending,                        \* the list of records that is still to be sent (`records' in the source)
    built                           \* history: the most recent buildBatch/build_batch call

lvars == <<pending, built>>

-----------------------------------------------------------------------------
(* Bounds of the model *)

MaxMsgs == 7

\* messages admitted in a run of LiveSpec
MaxLiveMsgs == 5

MaxRejects == 2

-----------------------------------------------------------------------------
(* Constants of the program *)

\* QueuedMessage.__init__: partkey_length > 256
MaxPartkeyLength == 256

\* QueuedMessage.__init__: record_size > 1024 * 1024
MaxRecordSize == 1048576

\* _split_queue: idx == 500 (scaled)
SplitCount == 6

\* _split_queue: bytes_so_far >= 5 * 1024 * 1024
SplitBytes == 5242880

\* _enqueue: len(self._queue) >= 500 (scaled)
FlushCount == 6

\* _enqueue: self._bytes_in_queue >= 5 * 1024 * 1024
FlushBytes == 5242880

\* enqueue: len(str(time.time())), e.g. "1700000000.1234567"
TimeKeyLength == 18

-----------------------------------------------------------------------------
(* Values *)

None == "None"

\* None where a str or bytes value is expected
NoValue == [type |-> "None"]

\* the arguments of a call that takes none
NoArgs == [ message |-> NoValue, partition_key |-> NoValue ]

\* the answer of put_records when it was not called
NoAnswer == [ raised |-> FALSE, Records |-> <<>> ]

\* bool(x), as a printable value
Bool(b) == IF b THEN "True" ELSE "False"

\* a str with `ascii' one-byte characters and `wide' two-byte characters
Str(ascii, wide) == [type |-> "str", ascii |-> ascii, wide |-> wide]

\* a bytes object of the given length
Bytes(length) == [type |-> "bytes", length |-> length]

\* str.encode(): UTF-8, one byte per ASCII character, two per character in U+0080..U+07FF
encode(s) == Bytes(s.ascii + 2 * s.wide)

\* len() of a str counts characters, of a bytes counts bytes
len(v) == IF v.type = "str" THEN v.ascii + v.wide ELSE v.length

RECURSIVE SumSizes(_)
SumSizes(msgs) ==
    IF msgs = <<>> THEN 0
    ELSE msgs[1].record_size + SumSizes(Tail(msgs))

-----------------------------------------------------------------------------
(* QueuedMessage *)

QueuedMessage_partkey_length(partition_key) == len(encode(partition_key))

QueuedMessage_record_size(message_bytes, partition_key) ==
    len(message_bytes) + QueuedMessage_partkey_length(partition_key)

\* variant: the limits are exclusive
QueuedMessage_error_exclusive(message_bytes, partition_key) ==
    IF QueuedMessage_partkey_length(partition_key) >= MaxPartkeyLength
    THEN "partition key too large"
    ELSE IF QueuedMessage_record_size(message_bytes, partition_key) >= MaxRecordSize
    THEN "message too large"
    ELSE None

\* the ValueError raised by the constructor, or None
QueuedMessage_error(message_bytes, partition_key) ==
    IF QueuedMessage_partkey_length(partition_key) > MaxPartkeyLength
    THEN "partition key too large"
    ELSE IF QueuedMessage_record_size(message_bytes, partition_key) > MaxRecordSize
    THEN "message too large"
    ELSE None

QueuedMessage(id, message_bytes, partition_key) ==
    [ id           |-> id,
      record_size  |-> QueuedMessage_record_size(message_bytes, partition_key),
      request_form |-> [ Data         |-> len(message_bytes),
                         PartitionKey |-> QueuedMessage_partkey_length(partition_key) ] ]

-----------------------------------------------------------------------------
(* KinesisWriter: the pure parts.  A writer state w is a record of the     *)
(* five fields of the object.                                              *)

Self ==
    [ _queue                      |-> _queue,
      _bytes_in_queue             |-> _bytes_in_queue,
      last_batch_size             |-> last_batch_size,
      last_batch_success_count    |-> last_batch_success_count,
      last_batch_failure_messages |-> last_batch_failure_messages ]

\* _enqueue: the state after the append
_enqueue(w, queued_message) ==
    [ w EXCEPT !._queue = Append(@, queued_message),
               !._bytes_in_queue = @ + queued_message.record_size ]

\* variant: the count test is len(self._queue) > 500
_enqueue_result_over(w) ==
    (w._bytes_in_queue >= FlushBytes) \/ (Len(w._queue) > FlushCount)

\* _enqueue: its return value, computed on the state after the append
_enqueue_result(w) ==
    (w._bytes_in_queue >= FlushBytes) \/ (Len(w._queue) >= FlushCount)

\* variant: the byte test is bytes_so_far > 5 MiB
RECURSIVE _split_index_over(_, _, _)
_split_index_over(queue, idx, bytes_before) ==
    IF idx >= Len(queue) THEN -1
    ELSE LET bytes_so_far == bytes_before + queue[idx + 1].record_size
         IN  IF (idx = SplitCount) \/ (bytes_so_far > SplitBytes)
             THEN idx
             ELSE _split_index_over(queue, idx + 1, bytes_so_far)

\* _split_queue: the loop, from 0-based index idx with bytes_so_far accumulated
\* over the messages before idx; the result is the idx at which the loop
\* returns, or -1 when it runs off the end of the queue
RECURSIVE _split_index(_, _, _)
_split_index(queue, idx, bytes_before) ==
    IF idx >= Len(queue) THEN -1
    ELSE LET bytes_so_far == bytes_before + queue[idx + 1].record_size
         IN  IF (idx = SplitCount) \/ (bytes_so_far >= SplitBytes)
             THEN idx
             ELSE _split_index(queue, idx + 1, bytes_so_far)

\* _split_queue that sends the whole queue
_split_queue_whole(queue) == <<queue, <<>>>>

\* _split_queue: <<messages_to_send, messages_to_requeue>>
_split_queue(queue) ==
    LET idx == _split_index(queue, 0, 0)
    IN  IF idx = -1 THEN <<queue, <<>>>>
        ELSE <<SubSeq(queue, 1, idx), SubSeq(queue, idx + 1, Len(queue))>>

\* record.get('ErrorCode') is truthy
HasError(record) == record.ErrorCode # None

\* variant: a rejected record is not put back
RECURSIVE _process_records_drop(_, _, _, _)
_process_records_drop(w, messages_to_send, records, pos) ==
    IF pos > Len(records) THEN w
    ELSE IF HasError(records[pos])
    THEN _process_records_drop(
            [ w EXCEPT !.last_batch_failure_messages = @ \cup {records[pos].ErrorMessage} ],
            messages_to_send, records, pos + 1)
    ELSE _process_records_drop(
            [ w EXCEPT !.last_batch_success_count = @ + 1 ],
            messages_to_send, records, pos + 1)

\* variant: a rejected record is put back at the front of the rebuilt queue
RECURSIVE _process_records_front(_, _, _, _)
_process_records_front(w, messages_to_send, records, pos) ==
    IF pos > Len(records) THEN w
    ELSE IF HasError(records[pos])
    THEN _process_records_front(
            [ w EXCEPT !._queue = <<messages_to_send[pos]>> \o @,
                       !._bytes_in_queue = @ + messages_to_send[pos].record_size,
                       !.last_batch_failure_messages = @ \cup {records[pos].ErrorMessage} ],
            messages_to_send, records, pos + 1)
    ELSE _process_records_front(
            [ w EXCEPT !.last_batch_success_count = @ + 1 ],
            messages_to_send, records, pos + 1)

\* _process_results: the first loop, from 1-based position pos of response['Records']
RECURSIVE _process_records(_, _, _, _)
_process_records(w, messages_to_send, records, pos) ==
    IF pos > Len(records) THEN w
    ELSE IF HasError(records[pos])
    THEN _process_records(
            [ _enqueue(w, messages_to_send[pos])
                EXCEPT !.last_batch_failure_messages = @ \cup {records[pos].ErrorMessage} ],
            messages_to_send, records, pos + 1)
    ELSE _process_records(
            [ w EXCEPT !.last_batch_success_count = @ + 1 ],
            messages_to_send, records, pos + 1)

\* _process_results: the second loop
RECURSIVE _requeue(_, _)
_requeue(w, messages_to_requeue) ==
    IF messages_to_requeue = <<>> THEN w
    ELSE _requeue(_enqueue(w, Head(messages_to_requeue)), Tail(messages_to_requeue))

\* variant: _bytes_in_queue is not reset before the queue is rebuilt
_process_results_keep_bytes(messages_to_send, messages_to_requeue, response) ==
    LET reset == [ _queue                      |-> <<>>,
                   _bytes_in_queue             |-> _bytes_in_queue,
                   last_batch_size             |-> Len(messages_to_send),
                   last_batch_success_count    |-> 0,
                   last_batch_failure_messages |-> {} ]
    IN  _requeue(_process_records(reset, messages_to_send, response.Records, 1),
                 messages_to_requeue)

\* variant: the messages that were not sent come before the rejected ones
_process_results_remainder_first(messages_to_send, messages_to_requeue, response) ==
    LET reset == [ _queue                      |-> <<>>,
                   _bytes_in_queue             |-> 0,
                   last_batch_size             |-> Len(messages_to_send),
                   last_batch_success_count    |-> 0,
                   last_batch_failure_messages |-> {} ]
    IN  _process_records(_requeue(reset, messages_to_requeue),
                         messages_to_send, response.Records, 1)

\* variant: the failure messages of earlier flushes are kept
_process_results_keep_messages(messages_to_send, messages_to_requeue, response) ==
    LET reset == [ _queue                      |-> <<>>,
                   _bytes_in_queue             |-> 0,
                   last_batch_size             |-> Len(messages_to_send),
                   last_batch_success_count    |-> 0,
                   last_batch_failure_messages |-> last_batch_failure_messages ]
    IN  _requeue(_process_records(reset, messages_to_send, response.Records, 1),
                 messages_to_requeue)

\* variant: the messages that were not sent are not put back
_process_results_no_requeue(messages_to_send, messages_to_requeue, response) ==
    LET reset == [ _queue                      |-> <<>>,
                   _bytes_in_queue             |-> 0,
                   last_batch_size             |-> Len(messages_to_send),
                   last_batch_success_count    |-> 0,
                   last_batch_failure_messages |-> {} ]
    IN  _process_records(reset, messages_to_send, response.Records, 1)

_process_results(messages_to_send, messages_to_requeue, response) ==
    LET reset == [ _queue                      |-> <<>>,
                   _bytes_in_queue             |-> 0,
                   last_batch_size             |-> Len(messages_to_send),
                   last_batch_success_count    |-> 0,
                   last_batch_failure_messages |-> {} ]
    IN  _requeue(_process_records(reset, messages_to_send, response.Records, 1),
                 messages_to_requeue)

-----------------------------------------------------------------------------
(* The service: what put_records may answer to a batch of n records.  A    *)
(* response has one outcome per submitted record, in order; or the call    *)
(* fails as a whole and raises.                                            *)

Accepted == [ ErrorCode |-> None, ErrorMessage |-> None ]

Throttled == [ ErrorCode    |-> "ProvisionedThroughputExceededException",
               ErrorMessage |-> "throttled!" ]

Failed == [ ErrorCode |-> "InternalFailure", ErrorMessage |-> "internal failure" ]

\* the outcome of the record at 0-based index idx under each behaviour of the service
Outcome(behaviour, idx) ==
    CASE behaviour = "happy"     -> Accepted
      [] behaviour = "throttled" -> Throttled
      [] behaviour = "partial"   -> IF idx % 2 = 0 THEN Accepted ELSE Throttled
      [] behaviour = "mixed"     -> IF idx % 3 = 0 THEN Throttled
                                    ELSE IF idx % 3 = 1 THEN Accepted ELSE Failed

Behaviours == {"happy", "throttled", "partial", "mixed"}

Response(behaviour, n) ==
    [ raised |-> FALSE, Records |-> [ pos \in 1..n |-> Outcome(behaviour, pos - 1) ] ]

Raises == [ raised |-> TRUE, Records |-> <<>> ]

Rejects(answer) ==
    answer.raised \/ \E pos \in 1..Len(answer.Records) : HasError(answer.Records[pos])

\* the answers the service may give; when budgeted, it rejects at most MaxRejects times
put_records(n, budgeted) ==
    { answer \in { Response(b, n) : b \in Behaviours } \cup {Raises} :
        (budgeted /\ rejections >= MaxRejects) => ~Rejects(answer) }

------------------------------------------------------------------------\* the ids of the messages whose outcome carries no ErrorCode
AcceptedIds(messages_to_send, answer) ==
    { messages_to_send[pos].id :
        pos \in { p \in 1..Len(answer.Records) : ~HasError(answer.Records[p]) } }

-----------------------------------------------------------------------------
(* KinesisWriter.flush applied to a writer state w with the given answer   *)
(* of put_records: the state afterwards and what the call did.             *)

\* Records=[rec.request_form for rec in messages_to_send]
Records(messages_to_send) ==
    [ pos \in 1..Len(messages_to_send) |-> messages_to_send[pos].request_form ]

RECURSIVE RequestBytes(_)
RequestBytes(records) ==
    IF records = <<>> THEN 0
    ELSE records[1].Data + records[1].PartitionKey + RequestBytes(Tail(records))

\* what the service saw of a call of put_records
Request(records) ==
    [ calls |-> 1, count |-> Len(records), bytes |-> RequestBytes(records) ]

NoRequest == [ calls |-> 0, count |-> 0, bytes |-> 0 ]

\* variant: the return value is computed from the queue before the flush
flush_result_stale(w, answer) ==
    IF Len(w._queue) = 0
    THEN [ w |-> w, raised |-> None, retval |-> Bool(FALSE), request |-> NoRequest,
           accepted |-> {}, answer |-> NoAnswer ]
    ELSE LET split == _split_queue(w._queue)
             messages_to_send == split[1]
             messages_to_requeue == split[2]
             request == Request(Records(messages_to_send))
         IN  IF answer.raised
             THEN [ w |-> w, raised |-> "ClientError", retval |-> None, request |-> request,
                    accepted |-> {}, answer |-> answer ]
             ELSE LET after == _process_results(messages_to_send, messages_to_requeue, answer)
                  IN  [ w |-> after, raised |-> None, retval |-> Bool(Len(w._queue) > 0),
                        request |-> request,
                        accepted |-> AcceptedIds(messages_to_send, answer),
                        answer |-> answer ]

\* variant: the queue is emptied before put_records is called
flush_result_reset_first(w, answer) ==
    IF Len(w._queue) = 0
    THEN [ w |-> w, raised |-> None, retval |-> Bool(FALSE), request |-> NoRequest,
           accepted |-> {}, answer |-> NoAnswer ]
    ELSE LET split == _split_queue(w._queue)
             messages_to_send == split[1]
             messages_to_requeue == split[2]
             request == Request(Records(messages_to_send))
         IN  IF answer.raised
             THEN [ w |-> [ w EXCEPT !._queue = <<>>, !._bytes_in_queue = 0 ],
                    raised |-> "ClientError", retval |-> None, request |-> request,
                    accepted |-> {}, answer |-> answer ]
             ELSE LET after == _process_results(messages_to_send, messages_to_requeue, answer)
                  IN  [ w |-> after, raised |-> None, retval |-> Bool(Len(after._queue) > 0),
                        request |-> request,
                        accepted |-> AcceptedIds(messages_to_send, answer),
                        answer |-> answer ]

flush_result(w, answer) ==
    IF Len(w._queue) = 0
    THEN [ w |-> w, raised |-> None, retval |-> Bool(FALSE), request |-> NoRequest,
           accepted |-> {}, answer |-> NoAnswer ]
    ELSE LET split == _split_queue(w._queue)
             messages_to_send == split[1]
             messages_to_requeue == split[2]
             request == Request(Records(messages_to_send))
         IN  IF answer.raised
             THEN [ w |-> w, raised |-> "ClientError", retval |-> None, request |-> request,
                    accepted |-> {}, answer |-> answer ]
             ELSE LET after == _process_results(messages_to_send, messages_to_requeue, answer)
                  IN  [ w |-> after, raised |-> None, retval |-> Bool(Len(after._queue) > 0),
                        request |-> request,
                        accepted |-> AcceptedIds(messages_to_send, answer),
                        answer |-> answer ]

\* put_records is called with the first Len(split[1]) messages of the queue
BatchLength(w) == Len(_split_queue(w._queue)[1])

Assign(w) ==
    /\ _queue' = w._queue
    /\ _bytes_in_queue' = w._bytes_in_queue
    /\ last_batch_size' = w.last_batch_size
    /\ last_batch_success_count' = w.last_batch_success_count
    /\ last_batch_failure_messages' = w.last_batch_failure_messages

Flushed(op, args, w, answer, budgeted) ==
    LET r == flush_result(w, answer)
    IN  /\ Assign(r.w)
        /\ sent' = [ id \in DOMAIN sent |->
                        IF id \in r.accepted THEN sent[id] + 1 ELSE sent[id] ]
        /\ call' = [ op |-> op, args |-> args, raised |-> r.raised, retval |-> r.retval,
                     request |-> r.request, answer |-> r.answer ]
        /\ rejections' = IF budgeted /\ r.request.calls = 1 /\ Rejects(answer)
                         THEN rejections + 1 ELSE rejections

-----------------------------------------------------------------------------
(* Operations *)

\* the arguments of enqueue(): a message exactly at both limits, and the same one byte over
LargeInputs ==
    { [ message |-> Bytes(MaxRecordSize - MaxPartkeyLength), partition_key |-> Str(0, 128) ],
      [ message |-> Str(MaxRecordSize - MaxPartkeyLength + 1, 0),
                                                             partition_key |-> Str(256, 0) ] }

\* the arguments of enqueue(): a short message with the default partition key, and a
\* partition key of 129 characters that encodes to 257 bytes
SmallInputs ==
    { [ message |-> Str(1, 0), partition_key |-> NoValue ],
      [ message |-> Str(1, 0), partition_key |-> Str(1, 128) ] }

EnqueueInputs == LargeInputs \cup SmallInputs

\* enqueue: the partition key after lines 78-81
enqueue_partition_key(args) ==
    IF args.partition_key = NoValue THEN Str(TimeKeyLength, 0) ELSE args.partition_key

\* enqueue: the message after lines 83-88
enqueue_message(args) ==
    IF args.message.type = "bytes" THEN args.message ELSE encode(args.message)

Enqueue(args, budgeted) ==
    LET partition_key == enqueue_partition_key(args)
        message == enqueue_message(args)
    IN  IF QueuedMessage_error(message, partition_key) # None
        THEN /\ call' = [ op |-> "enqueue", args |-> args, raised |-> "ValueError",
                          retval |-> None, request |-> NoRequest, answer |-> NoAnswer ]
             /\ UNCHANGED <<_queue, _bytes_in_queue, last_batch_size,
                            last_batch_success_count, last_batch_failure_messages,
                            admitted, sent, rejections>>
        ELSE /\ admitted < (IF budgeted THEN MaxLiveMsgs ELSE MaxMsgs)
             /\ admitted' = admitted + 1
             /\ LET queued_message == QueuedMessage(admitted + 1, message, partition_key)
                    w == _enqueue(Self, queued_message)
                IN  IF _enqueue_result(w)
                    THEN \E answer \in put_records(BatchLength(w), budgeted) :
                            Flushed("enqueue", args, w, answer, budgeted)
                    ELSE /\ Assign(w)
                         /\ call' = [ op |-> "enqueue", args |-> args, raised |-> None,
                                      retval |-> None, request |-> NoRequest,
                                      answer |-> NoAnswer ]
                         /\ UNCHANGED <<sent, rejections>>

Flush(budgeted) ==
    /\ \E answer \in put_records(BatchLength(Self), budgeted) :
          Flushed("flush", NoArgs, Self, answer, budgeted)
    /\ UNCHANGED admitted

enqueue == (\E args \in EnqueueInputs : Enqueue(args, FALSE)) /\ UNCHANGED <<rvars, lvars>>

flush == Flush(FALSE) /\ UNCHANGED <<rvars, lvars>>

enqueue_budgeted == (\E args \in LargeInputs : Enqueue(args, TRUE)) /\ UNCHANGED <<rvars, lvars>>

flush_budgeted == Flush(TRUE) /\ UNCHANGED <<rvars, lvars>>

-----------------------------------------------------------------------------
(* Bounds of the reader's model *)

\* shards of the stream
MaxShards == 3

\* records stored in one shard
MaxRecords == 3

\* the service's fetch limit
MaxLimit == 3

\* read() calls on one reader
MaxReads == 12

\* get_records calls that raise ExpiredIteratorException
MaxExpiries == 1

\* readers constructed on the stream, one after the other
MaxReaders == 2

\* get_records calls that raise an error other than ExpiredIteratorException
MaxFailures == 1

\* the read() calls of a reader while records are appended to its stream
MaxAppendReads == 5

-----------------------------------------------------------------------------
(* The stream service: get_shard_iterator and get_records *)

\* None where a number is expected (a sequence number, a shard iterator, a Shard)
NoNumber == -1

\* read() returned None
NoRecord == [shard |-> NoNumber, sequence_number |-> NoNumber]

\* from_offsets=None
NoOffsets == << >>

\* what a get_records call can raise: nothing (None), the expiry of its iterator, or
\* any other error of the service
Expired == "ExpiredIteratorException"

OtherFailure == "InternalFailure"

Faults == { None, Expired, OtherFailure }

\* the service refuses a request whose StartingSequenceNumber is None
get_shard_iterator_raises(request) ==
    /\ request.ShardIteratorType = "AFTER_SEQUENCE_NUMBER"
    /\ request.StartingSequenceNumber = NoNumber

\* the position that the issued iterator points to
get_shard_iterator(request) ==
    CASE request.ShardIteratorType = "TRIM_HORIZON" -> 0
      [] request.ShardIteratorType = "LATEST" -> stream[request.shard]
      [] request.ShardIteratorType = "AFTER_SEQUENCE_NUMBER" ->
            IF request.StartingSequenceNumber + 1 < stream[request.shard]
            THEN request.StartingSequenceNumber + 1
            ELSE stream[request.shard]

\* the response to get_records on shard s with an iterator that has not expired
get_records(s, ShardIterator) ==
    LET available == stream[s] - ShardIterator
        count     == IF available < read_limit THEN available ELSE read_limit
    IN  [ Records            |-> [ i \in 1..count |-> ShardIterator + i - 1 ],
          NextShardIterator  |-> ShardIterator + count,
          MillisBehindLatest |-> stream[s] - (ShardIterator + count) ]

\* the name and the ARN of the stream
TEST_STREAM_NAME == "example"

TEST_STREAM_ARN == "arn:aws:kinesis:us-east-1:123456789012:stream/example"

\* name_or_arn.startswith("arn:")
startswith_arn(name_or_arn) == name_or_arn = TEST_STREAM_ARN

\* the values of StreamStatus
Statuses == { "CREATING", "DELETING", "ACTIVE", "UPDATING" }

\* the client's describe_stream_summary
describe_stream_summary(request) ==
    [ StreamDescriptionSummary |-> [ StreamName   |-> TEST_STREAM_NAME,
                                     StreamARN    |-> TEST_STREAM_ARN,
                                     StreamStatus |-> StreamStatus ] ]

\* the client's list_shards: the shard ids in order, page_size at a time; a NextToken is
\* the position of the first shard of the next page
list_shards(request) ==
    LET n     == Cardinality(DOMAIN stream)
        first == IF request.NextToken = NoNumber THEN 0 ELSE request.NextToken
        count == IF n - first < page_size THEN n - first ELSE page_size
    IN  [ Shards    |-> [ i \in 1..count |-> [ ShardId |-> first + i - 1 ] ],
          NextToken |-> IF first + count < n THEN first + count ELSE NoNumber ]

-----------------------------------------------------------------------------
(* Shard *)

\* Shard.__init__
Shard(s, from_trim_horizon, from_offsets) ==
    [ shard_id                |-> s,
      last_sequence_number    |-> NoNumber,
      millis_behind_latest    |-> NoNumber,
      ShardIteratorType       |-> IF DOMAIN from_offsets # {} THEN "AFTER_SEQUENCE_NUMBER"
                                  ELSE IF from_trim_horizon THEN "TRIM_HORIZON"
                                  ELSE "LATEST",
      StartingSequenceNumber  |-> IF DOMAIN from_offsets # {} THEN from_offsets[s] ELSE NoNumber,
      _current_shard_iterator |-> NoNumber,
      _current_records        |-> << >> ]

\* In the operators below a local value of the method (issued, got, r, v) is bound
\* by \in to a one-element set, which computes it once; the CHOOSE takes the one result.

\* the outcome of a step of Shard.read that did not call the service
Quiet(shard) ==
    [ shard |-> shard, raised |-> None, cursors |-> << >>, fetched |-> << >>, expired |-> FALSE,
      failed |-> FALSE ]

\* Shard.has_records
has_records(shard) == shard._current_records = << >>

\* Shard._retrieve_shard_iterator that always asks for the configured position
_retrieve_shard_iterator_configured(shard, s) ==
    LET request == [ shard |-> s, ShardIteratorType |-> shard.ShardIteratorType,
                     StartingSequenceNumber |-> shard.StartingSequenceNumber ]
    IN  IF get_shard_iterator_raises(request)
        THEN [ Quiet(shard) EXCEPT !.raised = "ParamValidationError", !.cursors = <<request>> ]
        ELSE [ Quiet([ shard EXCEPT !._current_shard_iterator = get_shard_iterator(request) ])
                 EXCEPT !.cursors = <<request>> ]

\* Shard._retrieve_shard_iterator
_retrieve_shard_iterator(shard, s) ==
    LET args    == IF shard.last_sequence_number # NoNumber
                   THEN [ shard EXCEPT !.ShardIteratorType = "AFTER_SEQUENCE_NUMBER",
                                       !.StartingSequenceNumber = shard.last_sequence_number ]
                   ELSE shard
        request == [ shard |-> s, ShardIteratorType |-> args.ShardIteratorType,
                     StartingSequenceNumber |-> args.StartingSequenceNumber ]
    IN  IF get_shard_iterator_raises(request)
        THEN [ Quiet(args) EXCEPT !.raised = "ParamValidationError", !.cursors = <<request>> ]
        ELSE [ Quiet([ args EXCEPT !._current_shard_iterator = get_shard_iterator(request) ])
                 EXCEPT !.cursors = <<request>> ]

\* Shard._retrieve_records that keeps its shard iterator when get_records raises
\* ExpiredIteratorException
_retrieve_records_keep_iterator(shard, s, fault) ==
    CHOOSE outcome \in
        { LET a        == issued.shard
              response == get_records(s, a._current_shard_iterator)
              fetch    == [ shard |-> s, ShardIterator |-> a._current_shard_iterator ]
          IN  IF issued.raised # None
              THEN issued
              ELSE IF fault = OtherFailure
              THEN [ issued EXCEPT !.raised = OtherFailure,
                                   !.fetched = <<fetch>>,
                                   !.failed = TRUE ]
              ELSE IF fault = Expired
              THEN [ issued EXCEPT !.shard = [ a EXCEPT !._current_records = << >> ],
                                   !.fetched = <<fetch>>,
                                   !.expired = TRUE ]
              ELSE [ issued EXCEPT !.shard = [ a EXCEPT !._current_records = response.Records,
                                                        !._current_shard_iterator = response.NextShardIterator,
                                                        !.millis_behind_latest = response.MillisBehindLatest ],
                                   !.fetched = <<fetch>> ]
          : issued \in { IF shard._current_shard_iterator = NoNumber
                      THEN _retrieve_shard_iterator(shard, s)
                      ELSE Quiet(shard) } } : TRUE

\* Shard._retrieve_records that forgets last_sequence_number when get_records returns no record
_retrieve_records_forget_offset(shard, s, fault) ==
    CHOOSE outcome \in
        { LET a        == issued.shard
              response == get_records(s, a._current_shard_iterator)
              fetch    == [ shard |-> s, ShardIterator |-> a._current_shard_iterator ]
          IN  IF issued.raised # None
              THEN issued
              ELSE IF fault = OtherFailure
              THEN [ issued EXCEPT !.raised = OtherFailure,
                                   !.fetched = <<fetch>>,
                                   !.failed = TRUE ]
              ELSE IF fault = Expired
              THEN [ issued EXCEPT !.shard = [ a EXCEPT !._current_records = << >>,
                                                        !._current_shard_iterator = NoNumber ],
                                   !.fetched = <<fetch>>,
                                   !.expired = TRUE ]
              ELSE [ issued EXCEPT !.shard = [ a EXCEPT !._current_records = response.Records,
                                                        !._current_shard_iterator = response.NextShardIterator,
                                                        !.millis_behind_latest = response.MillisBehindLatest,
                                                        !.last_sequence_number =
                                                            IF response.Records = << >> THEN NoNumber ELSE @ ],
                                   !.fetched = <<fetch>> ]
          : issued \in { IF shard._current_shard_iterator = NoNumber
                      THEN _retrieve_shard_iterator(shard, s)
                      ELSE Quiet(shard) } } : TRUE

\* Shard._retrieve_records that discards its shard iterator on every error of get_records
_retrieve_records_discard_iterator(shard, s, fault) ==
    CHOOSE outcome \in
        { LET a        == issued.shard
              response == get_records(s, a._current_shard_iterator)
              fetch    == [ shard |-> s, ShardIterator |-> a._current_shard_iterator ]
          IN  IF issued.raised # None
              THEN issued
              ELSE IF fault = OtherFailure
              THEN [ issued EXCEPT !.shard = [ a EXCEPT !._current_records = << >>,
                                                        !._current_shard_iterator = NoNumber ],
                                   !.raised = OtherFailure,
                                   !.fetched = <<fetch>>,
                                   !.failed = TRUE ]
              ELSE IF fault = Expired
              THEN [ issued EXCEPT !.shard = [ a EXCEPT !._current_records = << >>,
                                                        !._current_shard_iterator = NoNumber ],
                                   !.fetched = <<fetch>>,
                                   !.expired = TRUE ]
              ELSE [ issued EXCEPT !.shard = [ a EXCEPT !._current_records = response.Records,
                                                        !._current_shard_iterator = response.NextShardIterator,
                                                        !.millis_behind_latest = response.MillisBehindLatest ],
                                   !.fetched = <<fetch>> ]
          : issued \in { IF shard._current_shard_iterator = NoNumber
                      THEN _retrieve_shard_iterator(shard, s)
                      ELSE Quiet(shard) } } : TRUE

\* Shard._retrieve_records; fault: what this get_records call raises
_retrieve_records(shard, s, fault) ==
    CHOOSE outcome \in
        { LET a        == issued.shard
              response == get_records(s, a._current_shard_iterator)
              fetch    == [ shard |-> s, ShardIterator |-> a._current_shard_iterator ]
          IN  IF issued.raised # None
              THEN issued
              ELSE IF fault = OtherFailure
              THEN [ issued EXCEPT !.raised = OtherFailure,
                                   !.fetched = <<fetch>>,
                                   !.failed = TRUE ]
              ELSE IF fault = Expired
              THEN [ issued EXCEPT !.shard = [ a EXCEPT !._current_records = << >>,
                                                        !._current_shard_iterator = NoNumber ],
                                   !.fetched = <<fetch>>,
                                   !.expired = TRUE ]
              ELSE [ issued EXCEPT !.shard = [ a EXCEPT !._current_records = response.Records,
                                                        !._current_shard_iterator = response.NextShardIterator,
                                                        !.millis_behind_latest = response.MillisBehindLatest ],
                                   !.fetched = <<fetch>> ]
          : issued \in { IF shard._current_shard_iterator = NoNumber
                      THEN _retrieve_shard_iterator(shard, s)
                      ELSE Quiet(shard) } } : TRUE

\* Shard.read that takes last_sequence_number from the last record of the buffer
Shard_read_buffered_offset(shard, s, fault) ==
    CHOOSE outcome \in
        { LET a == got.shard
          IN  IF got.raised # None \/ a._current_records = << >>
              THEN got @@ [ result |-> NoNumber ]
              ELSE [ got EXCEPT !.shard = [ a EXCEPT !.last_sequence_number =
                                                         a._current_records[Len(a._current_records)],
                                                     !._current_records = Tail(a._current_records) ] ]
                   @@ [ result |-> Head(a._current_records) ]
          : got \in { IF shard._current_records = << >>
                   THEN _retrieve_records(shard, s, fault)
                   ELSE Quiet(shard) } } : TRUE

\* Shard.read; result: the sequence number of the record returned, NoNumber for None
Shard_read(shard, s, fault) ==
    CHOOSE outcome \in
        { LET a == got.shard
          IN  IF got.raised # None \/ a._current_records = << >>
              THEN got @@ [ result |-> NoNumber ]
              ELSE [ got EXCEPT !.shard = [ a EXCEPT !.last_sequence_number = Head(a._current_records),
                                                     !._current_records = Tail(a._current_records) ] ]
                   @@ [ result |-> Head(a._current_records) ]
          : got \in { IF shard._current_records = << >>
                   THEN _retrieve_records(shard, s, fault)
                   ELSE Quiet(shard) } } : TRUE

-----------------------------------------------------------------------------
(* KinesisReader *)

\* KinesisReader.__init__: _retrieve_shards creates one Shard per shard of the stream
KinesisReader(shards, from_trim_horizon, from_offsets) ==
    [ _shards            |-> [ s \in shards |-> Shard(s, from_trim_horizon, from_offsets) ],
      _current_shard_idx |-> 0,
      _current_shard     |-> NoNumber ]

\* no exception message
NoMessage == [ stream |-> None, status |-> None ]

\* the message f"stream {name_or_arn} is not active ({desc['StreamStatus']})"
not_active(name_or_arn, status) == [ stream |-> name_or_arn, status |-> status ]

\* KinesisReader._verify_stream
_verify_stream(name_or_arn) ==
    LET request == IF startswith_arn(name_or_arn)
                   THEN [ op |-> "describe_stream_summary", StreamARN |-> name_or_arn ]
                   ELSE [ op |-> "describe_stream_summary", StreamName |-> name_or_arn ]
        desc    == describe_stream_summary(request).StreamDescriptionSummary
    IN  IF desc.StreamStatus # "ACTIVE"
        THEN [ raised |-> "Exception", message |-> not_active(name_or_arn, desc.StreamStatus),
               requests |-> <<request>>, _stream_arn |-> None, _stream_name |-> None ]
        ELSE [ raised |-> None, message |-> NoMessage,
               requests |-> <<request>>, _stream_arn |-> desc.StreamARN,
               _stream_name |-> desc.StreamName ]

\* KinesisReader._retrieve_shards that stops after the first response of list_shards
_list_first_page(k, args, from_trim_horizon, from_offsets) ==
    LET resp     == list_shards(args)
        n        == Cardinality(DOMAIN k._shards)
        appended == [ i \in 0..(n + Len(resp.Shards) - 1) |->
                        IF i < n THEN k._shards[i]
                        ELSE Shard(resp.Shards[i - n + 1].ShardId, from_trim_horizon, from_offsets) ]
    IN  [ k EXCEPT !._shards = appended, !.requests = Append(@, args) ]

\* KinesisReader._retrieve_shards: the loop, with args as the next list_shards call gets them
RECURSIVE _retrieve_shards_loop(_, _, _, _)
_retrieve_shards_loop(k, args, from_trim_horizon, from_offsets) ==
    LET resp     == list_shards(args)
        n        == Cardinality(DOMAIN k._shards)
        appended == [ i \in 0..(n + Len(resp.Shards) - 1) |->
                        IF i < n THEN k._shards[i]
                        ELSE Shard(resp.Shards[i - n + 1].ShardId, from_trim_horizon, from_offsets) ]
        listed   == [ k EXCEPT !._shards = appended, !.requests = Append(@, args) ]
    IN  IF resp.NextToken # NoNumber
        THEN _retrieve_shards_loop(listed, [ args EXCEPT !.NextToken = resp.NextToken ],
                                   from_trim_horizon, from_offsets)
        ELSE listed

\* KinesisReader._retrieve_shards
_retrieve_shards(_stream_arn, from_trim_horizon, from_offsets) ==
    _retrieve_shards_loop([ _shards            |-> << >>,
                            _current_shard_idx |-> 0,
                            _current_shard     |-> NoNumber,
                            requests           |-> << >> ],
                          [ op |-> "list_shards", StreamARN |-> _stream_arn, NextToken |-> NoNumber ],
                          from_trim_horizon, from_offsets)

\* KinesisReader.__init__ that lists the shards before it looks at the status of the stream
KinesisReader_init_verify_last(name_or_arn, from_trim_horizon, from_offsets) ==
    LET v == _verify_stream(name_or_arn)
        k == _retrieve_shards(TEST_STREAM_ARN, from_trim_horizon, from_offsets)
    IN  IF v.raised # None
        THEN [ raised |-> v.raised, message |-> v.message, requests |-> k.requests \o v.requests,
               _shards |-> << >>, _current_shard_idx |-> 0, _current_shard |-> NoNumber ]
        ELSE [ raised |-> None, message |-> NoMessage, requests |-> k.requests \o v.requests,
               _shards |-> k._shards, _current_shard_idx |-> k._current_shard_idx,
               _current_shard |-> k._current_shard ]

\* KinesisReader.__init__: the reader, and what the call raised and asked of the client
KinesisReader_init(name_or_arn, from_trim_horizon, from_offsets) ==
    LET v == _verify_stream(name_or_arn)
        k == _retrieve_shards(v._stream_arn, from_trim_horizon, from_offsets)
    IN  IF v.raised # None
        THEN [ raised |-> v.raised, message |-> v.message, requests |-> v.requests,
               _shards |-> << >>, _current_shard_idx |-> 0, _current_shard |-> NoNumber ]
        ELSE [ raised |-> None, message |-> NoMessage, requests |-> v.requests \o k.requests,
               _shards |-> k._shards, _current_shard_idx |-> k._current_shard_idx,
               _current_shard |-> k._current_shard ]

\* KinesisReader.shard_offsets
shard_offsets ==
    [ s \in DOMAIN _shards |-> _shards[s].last_sequence_number ]

\* KinesisReader._shards_to_read
_shards_to_read(k) ==
    LET n == Cardinality(DOMAIN k._shards)
    IN  [ i \in 1..n |-> (k._current_shard_idx + i) % n ]

\* max(a, b) of Python
max(a, b) == IF a >= b THEN a ELSE b

\* KinesisReader.millis_behind_latest(by_shard=False) without the early return
RECURSIVE max_behind_skip_unknown(_, _)
max_behind_skip_unknown(i, max_behind) ==
    IF i \notin DOMAIN _shards
    THEN max_behind
    ELSE IF _shards[i].millis_behind_latest = NoNumber
    THEN max_behind_skip_unknown(i + 1, max_behind)
    ELSE max_behind_skip_unknown(i + 1, max(max_behind, _shards[i].millis_behind_latest))

\* KinesisReader.millis_behind_latest(by_shard=False): the loop from the shard at index i on
RECURSIVE max_behind(_, _)
max_behind(i, so_far) ==
    IF i \notin DOMAIN _shards
    THEN so_far
    ELSE IF _shards[i].millis_behind_latest = NoNumber
    THEN NoNumber
    ELSE max_behind(i + 1, max(so_far, _shards[i].millis_behind_latest))

\* KinesisReader.millis_behind_latest
millis_behind_latest(by_shard) ==
    IF by_shard
    THEN [ id \in { _shards[i].shard_id : i \in DOMAIN _shards } |->
             LET i == CHOOSE i \in DOMAIN _shards : _shards[i].shard_id = id
             IN  _shards[i].millis_behind_latest ]
    ELSE max_behind(0, 0)

\* the reader as a read() call finds it, with the empty log of the call
Reader ==
    [ _shards            |-> _shards,
      _current_shard_idx |-> _current_shard_idx,
      _current_shard     |-> _current_shard,
      result             |-> NoRecord,
      raised             |-> None,
      visited            |-> << >>,
      cursors            |-> << >>,
      fetched            |-> << >>,
      expired            |-> << >>,
      failed             |-> << >> ]

\* KinesisReader.read calling read() of the Shard at index s
Visit(k, s, fault) ==
    CHOOSE outcome \in
        { [ k EXCEPT !._shards[s] = r.shard,
                     !.result     = IF r.result = NoNumber THEN NoRecord
                                    ELSE [ shard |-> s, sequence_number |-> r.result ],
                     !.raised     = r.raised,
                     !.visited    = Append(@, s),
                     !.cursors    = @ \o r.cursors,
                     !.fetched    = @ \o r.fetched,
                     !.expired    = IF r.expired THEN Append(@, s) ELSE @,
                     !.failed     = IF r.failed THEN Append(@, s) ELSE @ ]
          : r \in { Shard_read(k._shards[s], s, fault) } } : TRUE

\* KinesisReader.read: the loop over _shards_to_read()
RECURSIVE _read_shards(_, _, _)
_read_shards(k, indexes, faults) ==
    IF indexes = << >>
    THEN k
    ELSE CHOOSE outcome \in
             { IF v.raised # None \/ v.result # NoRecord
               THEN v
               ELSE _read_shards(v, Tail(indexes), faults)
               : v \in { Visit([ k EXCEPT !._current_shard_idx = Head(indexes),
                                          !._current_shard = Head(indexes) ],
                               Head(indexes), faults[Head(indexes)]) } } : TRUE

\* KinesisReader.read; faults: for each shard, what its get_records call raises
KinesisReader_read(k, faults) ==
    IF k._current_shard # NoNumber /\ has_records(k._shards[k._current_shard])
    THEN Visit(k, k._current_shard, faults[k._current_shard])
    ELSE _read_shards(k, _shards_to_read(k), faults)

\* the set of the elements of a sequence
Range(seq) == { seq[i] : i \in DOMAIN seq }

-----------------------------------------------------------------------------
(* Operations of the reader *)

\* the shards for which `faults' announces the fault f
Faulty(faults, f) == { s \in DOMAIN faults : faults[s] = f }

Read(faults) ==
    /\ readers > 0
    /\ \E k \in { KinesisReader_read(Reader, faults) } :
        /\ reads < MaxReads
        /\ Range(k.expired) = Faulty(faults, Expired)
        /\ Range(k.failed) = Faulty(faults, OtherFailure)
        /\ expiries + Len(k.expired) <= MaxExpiries
        /\ failures + Len(k.failed) <= MaxFailures
        /\ _shards' = k._shards
        /\ _current_shard_idx' = k._current_shard_idx
        /\ _current_shard' = k._current_shard
        /\ returned' = IF k.result # NoRecord THEN Append(returned, k.result) ELSE returned
        /\ reads' = reads + 1
        /\ expiries' = expiries + Len(k.expired)
        /\ failures' = failures + Len(k.failed)
        /\ first_cursor' = [ s \in DOMAIN _shards |->
                               IF first_cursor[s] = NoNumber
                                  /\ \E i \in DOMAIN k.cursors :
                                        /\ k.cursors[i].shard = s
                                        /\ ~get_shard_iterator_raises(k.cursors[i])
                               THEN LET i == CHOOSE i \in DOMAIN k.cursors : k.cursors[i].shard = s
                                    IN  get_shard_iterator(k.cursors[i])
                               ELSE first_cursor[s] ]
        /\ behind' = [ s \in DOMAIN _shards |->
                         IF \E i \in DOMAIN k.fetched : k.fetched[i].shard = s
                         THEN IF s \in Range(k.expired) \/ s \in Range(k.failed)
                              THEN behind[s]
                              ELSE LET i == CHOOSE i \in DOMAIN k.fetched : k.fetched[i].shard = s
                                   IN  get_records(s, k.fetched[i].ShardIterator).MillisBehindLatest
                         ELSE behind[s] ]
        /\ rcall' = [ op |-> "read", result |-> k.result, raised |-> k.raised,
                      visited |-> k.visited, cursors |-> k.cursors,
                      fetched |-> k.fetched, expired |-> k.expired, failed |-> k.failed ]
        /\ UNCHANGED <<stream, StreamStatus, page_size, read_limit, earlier, readers,
                       constructed, ccall>>
        /\ UNCHANGED <<vars, lvars>>

\* rec = reader.read(), where get_records raises nothing but ExpiredIteratorException
read ==
    \E expiring \in SUBSET DOMAIN _shards :
        Read([ s \in DOMAIN _shards |-> IF s \in expiring THEN Expired ELSE None ])

\* rec = reader.read(), where get_records may raise any error
read_faulty == \E faults \in [ DOMAIN _shards -> Faults ] : Read(faults)

\* reader = KinesisReader(client, stream, from_offsets=reader.shard_offsets())
resume ==
    LET k == KinesisReader(DOMAIN stream, FALSE, shard_offsets)
        c == KinesisReader_init(TEST_STREAM_NAME, FALSE, shard_offsets)
    IN  /\ readers \in 1..(MaxReaders - 1)
        /\ ccall' = [ stream |-> TEST_STREAM_NAME, raised |-> c.raised, message |-> c.message,
                      requests |-> c.requests ]
        /\ _shards' = k._shards
        /\ _current_shard_idx' = k._current_shard_idx
        /\ _current_shard' = k._current_shard
        /\ earlier' = earlier \o returned
        /\ returned' = << >>
        /\ reads' = 0
        /\ readers' = readers + 1
        /\ constructed' = [ from_trim_horizon |-> FALSE, from_offsets |-> shard_offsets ]
        /\ rcall' = [ op |-> "from_offsets", result |-> NoRecord, raised |-> None,
                      visited |-> << >>, cursors |-> << >>, fetched |-> << >>,
                      expired |-> << >>, failed |-> << >> ]
        /\ behind' = [ s \in DOMAIN stream |-> NoNumber ]
        /\ first_cursor' = [ s \in DOMAIN stream |-> NoNumber ]
        /\ UNCHANGED <<stream, StreamStatus, page_size, read_limit, expiries, failures>>
        /\ UNCHANGED <<vars, lvars>>

\* the names that a caller may give the stream
Names == { TEST_STREAM_NAME, TEST_STREAM_ARN }

\* reader = KinesisReader(client, stream), with or without from_trim_horizon=True
construct ==
    \E name_or_arn \in Names, from_trim_horizon \in BOOLEAN :
        \E k \in { KinesisReader_init(name_or_arn, from_trim_horizon, NoOffsets) } :
            /\ readers = 0
            /\ ccall' = [ stream |-> name_or_arn, raised |-> k.raised, message |-> k.message,
                          requests |-> k.requests ]
            /\ IF k.raised # None
               THEN UNCHANGED <<_shards, _current_shard_idx, _current_shard, behind,
                                first_cursor, readers, constructed, rcall>>
               ELSE /\ _shards' = k._shards
                    /\ _current_shard_idx' = k._current_shard_idx
                    /\ _current_shard' = k._current_shard
                    /\ behind' = [ s \in DOMAIN k._shards |-> NoNumber ]
                    /\ first_cursor' = [ s \in DOMAIN k._shards |-> NoNumber ]
                    /\ readers' = 1
                    /\ constructed' = [ from_trim_horizon |-> from_trim_horizon,
                                        from_offsets |-> NoOffsets ]
                    /\ rcall' = [ op |-> "init", result |-> NoRecord, raised |-> None,
                                  visited |-> << >>, cursors |-> << >>, fetched |-> << >>,
                                  expired |-> << >>, failed |-> << >> ]
            /\ UNCHANGED <<stream, StreamStatus, page_size, read_limit, returned, earlier,
                           reads, expiries, failures>>
            /\ UNCHANGED <<vars, lvars>>

\* a producer's put_record: the service appends a record to a shard of the stream
put_record ==
    /\ \E s \in DOMAIN stream :
         /\ stream[s] < MaxRecords
         /\ stream' = [ stream EXCEPT ![s] = @ + 1 ]
    /\ UNCHANGED <<StreamStatus, page_size, read_limit, _shards, _current_shard_idx,
                   _current_shard, returned, earlier, reads, expiries, failures, behind,
                   first_cursor, readers, constructed, rcall, ccall>>
    /\ UNCHANGED <<vars, lvars>>

-----------------------------------------------------------------------------
(* The Lambdas that write CloudWatch Logs events to Kinesis *)

\* the most records of an input list
MaxInput == 4

\* the record limit of a batch (500 in the source, scaled) and its byte limit
BatchRecords == 3

BatchBytes == 1048576

\* the lengths of record['Data'] and of record['PartitionKey'] that are tried
DataLengths == { 1, 524282, 1048570 }

PartitionKeyLengths == { 6, 7 }

\* the lists of records that transformToRecords/prepare_records may produce
RecordLists ==
    UNION { { list \in [ 1..n -> [ id : 1..n, Data : DataLengths, PartitionKey : PartitionKeyLengths ] ] :
                \A i \in 1..n : list[i].id = i } : n \in 0..MaxInput }

\* min(a, b) of Python
min(a, b) == IF a <= b THEN a ELSE b

\* records[n:]
From(list, n) == SubSeq(list, n + 1, Len(list))

\* buildBatch: the while loop
RECURSIVE buildBatch_loop(_, _, _)
buildBatch_loop(list, recCount, byteCount) ==
    IF recCount < min(Len(list), BatchRecords) /\ byteCount < BatchBytes
    THEN buildBatch_loop(list, recCount + 1,
                         byteCount + list[recCount + 1].Data + list[recCount + 1].PartitionKey)
    ELSE [ recCount |-> recCount, byteCount |-> byteCount ]

\* buildBatch without the compensation for the record that was added before its size was known
buildBatch_uncompensated(list) ==
    LET counted  == buildBatch_loop(list, 0, 0)
        recCount == counted.recCount
    IN  IF recCount = 0
        THEN [ toBeSent |-> << >>, toBeReturned |-> From(list, 1) ]
        ELSE [ toBeSent |-> SubSeq(list, 1, recCount), toBeReturned |-> From(list, recCount) ]

\* buildBatch of cloudwatch-logs-to-kinesis
buildBatch(list) ==
    LET counted  == buildBatch_loop(list, 0, 0)
        recCount == IF counted.byteCount > BatchBytes
                    THEN counted.recCount - 1
                    ELSE counted.recCount
    IN  IF recCount = 0
        THEN [ toBeSent |-> << >>, toBeReturned |-> From(list, 1) ]
        ELSE [ toBeSent |-> SubSeq(list, 1, recCount), toBeReturned |-> From(list, recCount) ]

\* build_batch of cloudwatch-log-transform: the while loop
RECURSIVE build_batch_loop(_, _, _)
build_batch_loop(list, rec_count, byte_count) ==
    IF rec_count < min(Len(list), BatchRecords) /\ byte_count < BatchBytes
    THEN build_batch_loop(list, rec_count + 1,
                          byte_count + list[rec_count + 1].Data + list[rec_count + 1].PartitionKey)
    ELSE [ rec_count |-> rec_count, byte_count |-> byte_count ]

\* build_batch of cloudwatch-log-transform
build_batch(list) ==
    LET counted   == build_batch_loop(list, 0, 0)
        rec_count == IF counted.byte_count > BatchBytes
                     THEN counted.rec_count - 1
                     ELSE counted.rec_count
    IN  IF rec_count = 0
        THEN [ toBeSent |-> << >>, toBeReturned |-> From(list, 1) ]
        ELSE [ toBeSent |-> SubSeq(list, 1, rec_count), toBeReturned |-> From(list, rec_count) ]

\* no call yet
NoBuilt == [ by |-> None, input |-> << >>, toBeSent |-> << >>, toBeReturned |-> << >> ]

\* no list of records
NoBatch ==
    /\ pending = << >>
    /\ built = NoBuilt

\* the elements of list at the positions in chosen, in order
RECURSIVE Select(_, _, _)
Select(list, chosen, i) ==
    IF i > Len(list) THEN << >>
    ELSE IF i \in chosen THEN <<list[i]>> \o Select(list, chosen, i + 1)
    ELSE Select(list, chosen, i + 1)

\* processResponse/process_response: the records whose entry of the response has the
\* ErrorCode ProvisionedThroughputExceededException, at the positions in throttled
processResponse(throttled, list) == Select(list, throttled, 1)

\* processBatch of cloudwatch-logs-to-kinesis on the list that writeToKinesis holds;
\* put_records raises ProvisionedThroughputExceededException, or answers it for the
\* records at the positions in throttled
processBatch ==
    /\ pending # << >>
    /\ \E b \in { buildBatch(pending) } :
         /\ built' = [ by |-> "buildBatch", input |-> pending,
                       toBeSent |-> b.toBeSent, toBeReturned |-> b.toBeReturned ]
         /\ \E raises \in BOOLEAN, throttled \in SUBSET DOMAIN b.toBeSent :
              pending' = IF raises
                         THEN b.toBeSent \o b.toBeReturned
                         ELSE b.toBeReturned \o processResponse(throttled, b.toBeSent)
    /\ UNCHANGED <<vars, rvars>>

\* process_batch of cloudwatch-log-transform, likewise
process_batch ==
    /\ pending # << >>
    /\ \E b \in { build_batch(pending) } :
         /\ built' = [ by |-> "build_batch", input |-> pending,
                       toBeSent |-> b.toBeSent, toBeReturned |-> b.toBeReturned ]
         /\ \E raises \in BOOLEAN, throttled \in SUBSET DOMAIN b.toBeSent :
              pending' = IF raises
                         THEN b.toBeSent \o b.toBeReturned
                         ELSE processResponse(throttled, b.toBeSent) \o b.toBeReturned
    /\ UNCHANGED <<vars, rvars>>

-----
(* Specifications *)

\* KinesisWriter.__init__
KinesisWriter ==
    /\ _queue = <<>>
    /\ _bytes_in_queue = 0
    /\ last_batch_size = 0
    /\ last_batch_success_count = 0
    /\ last_batch_failure_messages = {}
    /\ admitted = 0
    /\ sent = [ id \in 1..MaxMsgs |-> 0 ]
    /\ call = [ op |-> "init", args |-> NoArgs, raised |-> None, retval |-> None,
                request |-> NoRequest, answer |-> NoAnswer ]
    /\ rejections = 0

\* no call of KinesisReader(...)
NoCall == [ stream |-> None, raised |-> None, message |-> NoMessage, requests |-> << >> ]

\* no stream and no reader
NoReader ==
    /\ stream = << >>
    /\ StreamStatus = "ACTIVE"
    /\ page_size = MaxShards
    /\ ccall = NoCall
    /\ read_limit = 0
    /\ _shards = << >>
    /\ _current_shard_idx = 0
    /\ _current_shard = NoNumber
    /\ returned = << >>
    /\ earlier = << >>
    /\ reads = 0
    /\ expiries = 0
    /\ failures = 0
    /\ behind = << >>
    /\ first_cursor = << >>
    /\ readers = 0
    /\ constructed = [ from_trim_horizon |-> FALSE, from_offsets |-> NoOffsets ]
    /\ rcall = [ op |-> "none", result |-> NoRecord, raised |-> None,
                 visited |-> << >>, cursors |-> << >>, fetched |-> << >>,
                 expired |-> << >>, failed |-> << >> ]

Init == KinesisWriter /\ NoReader /\ NoBatch

Next == enqueue \/ flush

Spec == Init /\ [][Next]_vars

NextBudgeted == enqueue_budgeted \/ flush_budgeted

\* the caller keeps calling flush(); the service rejects at most MaxRejects times
LiveSpec == Init /\ [][NextBudgeted]_vars /\ WF_vars(flush_budgeted)

\* a stream of 1..MaxShards shards and a reader constructed on it, from_trim_horizon or not
ReaderInit ==
    /\ KinesisWriter
    /\ NoBatch
    /\ \E n \in 1..MaxShards :
         /\ stream \in [ 0..(n - 1) -> 0..MaxRecords ]
         /\ \E from_trim_horizon \in BOOLEAN :
              LET k == KinesisReader(0..(n - 1), from_trim_horizon, NoOffsets)
              IN  /\ _shards = k._shards
                  /\ _current_shard_idx = k._current_shard_idx
                  /\ _current_shard = k._current_shard
                  /\ constructed = [ from_trim_horizon |-> from_trim_horizon,
                                     from_offsets |-> NoOffsets ]
    /\ StreamStatus = "ACTIVE"
    /\ page_size = MaxShards
    /\ ccall = [ stream |-> TEST_STREAM_NAME, raised |-> None, message |-> NoMessage,
                 requests |-> KinesisReader_init(TEST_STREAM_NAME, FALSE, NoOffsets).requests ]
    /\ read_limit \in 1..MaxLimit
    /\ returned = << >>
    /\ earlier = << >>
    /\ reads = 0
    /\ expiries = 0
    /\ failures = 0
    /\ behind = [ s \in DOMAIN stream |-> NoNumber ]
    /\ first_cursor = [ s \in DOMAIN stream |-> NoNumber ]
    /\ readers = 1
    /\ rcall = [ op |-> "init", result |-> NoRecord, raised |-> None,
                 visited |-> << >>, cursors |-> << >>, fetched |-> << >>,
                 expired |-> << >>, failed |-> << >> ]

ReaderNext == read \/ resume

ReaderSpec == ReaderInit /\ [][ReaderNext]_rvars

\* a stream of 1..MaxShards shards in any status, and no reader yet
ConstructInit ==
    /\ KinesisWriter
    /\ NoBatch
    /\ \E n \in 1..MaxShards : stream \in [ 0..(n - 1) -> 0..MaxRecords ]
    /\ StreamStatus \in Statuses
    /\ page_size \in 1..MaxShards
    /\ read_limit \in 1..MaxLimit
    /\ _shards = << >>
    /\ _current_shard_idx = 0
    /\ _current_shard = NoNumber
    /\ returned = << >>
    /\ earlier = << >>
    /\ reads = 0
    /\ expiries = 0
    /\ failures = 0
    /\ behind = << >>
    /\ first_cursor = << >>
    /\ readers = 0
    /\ constructed = [ from_trim_horizon |-> FALSE, from_offsets |-> NoOffsets ]
    /\ rcall = [ op |-> "none", result |-> NoRecord, raised |-> None,
                 visited |-> << >>, cursors |-> << >>, fetched |-> << >>,
                 expired |-> << >>, failed |-> << >> ]
    /\ ccall = NoCall

ConstructNext == construct \/ read

ConstructSpec == ConstructInit /\ [][ConstructNext]_rvars

\* a list of up to MaxInput records to be sent, by either Lambda
BatchInit ==
    /\ KinesisWriter
    /\ NoReader
    /\ pending \in RecordLists
    /\ built = NoBuilt

BatchNext == processBatch \/ process_batch

BatchSpec == BatchInit /\ [][BatchNext]_lvars

\* a reader that starts at the end of a stream (the default)
AppendInit == ReaderInit /\ ~constructed.from_trim_horizon

\* rec = reader.read(), up to MaxAppendReads times
read_latest == reads < MaxAppendReads /\ read

\* the reader reads while records are appended to its stream
AppendNext == read_latest \/ put_record

AppendSpec == AppendInit /\ [][AppendNext]_rvars

\* the same reader on a service whose get_records may fail in any way
FaultySpec == ReaderInit /\ [][read_faulty]_rvars

-----------------------------------------------------------------------------
(* Properties *)

\* the queue at the time the step called put_records: an enqueue() has appended its message
NewMessage ==
    QueuedMessage(admitted', enqueue_message(call'.args), enqueue_partition_key(call'.args))

QueueAtPublish ==
    IF call'.op = "enqueue" THEN Append(_queue, NewMessage) ELSE _queue

\* the step called put_records and the call returned a response
Published == call'.request.calls = 1 /\ call'.raised = None

\* the messages of the batch that the queue kept aside at the last returned put_records
RemainderLength == Len(_queue) - (last_batch_size - last_batch_success_count)

\* C1, as stated: every batch passed to put_records holds at most 500 records (scaled:
\* SplitCount) and at most 1 MiB of payload and partition-key bytes.
C1_BatchWithinOneMiB ==
    call.request.calls = 1 =>
        /\ call.request.count <= SplitCount
        /\ call.request.bytes <= 1024 * 1024

\* C1, amended: every batch passed to put_records holds at most 500 records (scaled:
\* SplitCount) and strictly less than 5 MiB of payload and partition-key bytes.
C1_BatchWithinLimits ==
    call.request.calls = 1 =>
        /\ call.request.count <= SplitCount
        /\ call.request.bytes < 5 * 1024 * 1024

\* a batch cut by the byte limit: fewer than SplitCount records, more than 1 MiB, and
\* messages stayed behind
C1_Witness ==
    /\ call.request.calls = 1
    /\ call.raised = None
    /\ call.request.count < SplitCount
    /\ call.request.bytes > 1024 * 1024
    /\ RemainderLength > 0

\* the encoded lengths of the arguments of an enqueue() call
ArgKeyBytes(args) ==
    IF args.partition_key = NoValue THEN TimeKeyLength
    ELSE args.partition_key.ascii + 2 * args.partition_key.wide

ArgMessageBytes(args) ==
    IF args.message.type = "bytes" THEN args.message.length
    ELSE args.message.ascii + 2 * args.message.wide

Oversize(args) ==
    \/ ArgKeyBytes(args) > 256
    \/ ArgMessageBytes(args) + ArgKeyBytes(args) > 1048576

\* C2: enqueue() raises and leaves the queue and its byte counter unchanged whenever the
\* encoded partition key is longer than 256 bytes or payload + partition key exceeds
\* 1 MiB; otherwise (also exactly at a limit) the message is admitted.
C2_AdmissionLimits ==
    [][ call'.op = "enqueue" =>
          IF Oversize(call'.args)
          THEN /\ call'.raised = "ValueError"
               /\ _queue' = _queue
               /\ _bytes_in_queue' = _bytes_in_queue
               /\ admitted' = admitted
          ELSE /\ call'.raised # "ValueError"
               /\ admitted' = admitted + 1 ]_vars

\* an enqueue() was rejected while the queue holds a message exactly at both limits
C2_Witness ==
    /\ call.op = "enqueue"
    /\ call.raised = "ValueError"
    /\ \E pos \in 1..Len(_queue) :
          /\ _queue[pos].request_form.PartitionKey = 256
          /\ _queue[pos].record_size = 1048576

\* every admitted message has been counted as sent once and the last flush() returned False
FlushedEmpty ==
    /\ call.op = "flush"
    /\ call.retval = Bool(FALSE)
    /\ _queue = <<>>
    /\ \A id \in 1..admitted : sent[id] = 1

\* C3: when the caller keeps flushing and the service rejects only finitely often, flush()
\* returns False with an empty queue again and again, every admitted message then having
\* been counted as sent once; and no message is ever counted twice.
C3_EverySentOnce ==
    /\ []<>FlushedEmpty
    /\ [](\A id \in 1..MaxMsgs : sent[id] <= 1)

\* all is sent although the service used up its rejections
C3_Witness ==
    /\ FlushedEmpty
    /\ admitted = MaxLiveMsgs
    /\ rejections = MaxRejects

\* C4: the messages of the queue are in the order of their admission.
C4_QueueInAdmissionOrder ==
    \A i, j \in 1..Len(_queue) : i < j => _queue[i].id < _queue[j].id

\* two messages rejected together are back in the queue, ahead of a remainder
C4_Witness ==
    /\ call.request.calls = 1
    /\ call.raised = None
    /\ last_batch_success_count > 0
    /\ last_batch_size - last_batch_success_count >= 2
    /\ RemainderLength > 0

\* the messages of a batch whose outcome carries an ErrorCode, in batch order
RECURSIVE RejectedOf(_, _)
RejectedOf(batch, records) ==
    IF batch = <<>> THEN <<>>
    ELSE (IF records[1].ErrorCode # None THEN <<batch[1]>> ELSE <<>>)
         \o RejectedOf(Tail(batch), Tail(records))

\* C5: after a flush whose response has one outcome per record, the queue is the rejected
\* messages of the batch in batch order, followed by the messages that were not sent.
C5_QueueAfterFlush ==
    [][ Published =>
          LET before == QueueAtPublish
              n == Len(call'.answer.Records)
          IN  /\ n = call'.request.count
              /\ _queue' = RejectedOf(SubSeq(before, 1, n), call'.answer.Records)
                           \o SubSeq(before, n + 1, Len(before)) ]_vars

\* a flush with accepted and rejected records and a remainder
C5_Witness ==
    /\ call.request.calls = 1
    /\ call.raised = None
    /\ last_batch_success_count > 0
    /\ last_batch_size > last_batch_success_count
    /\ RemainderLength > 0
    /\ call.op = "flush"

InQueue(id) == \E pos \in 1..Len(_queue) : _queue[pos].id = id

\* C6: every admitted message is either in the queue (once, and not counted as sent) or
\* was counted as sent by the flush that removed it; none is dropped.
C6_NoMessageDropped ==
    \A id \in 1..admitted :
        /\ Cardinality({ pos \in 1..Len(_queue) : _queue[pos].id = id }) + sent[id] = 1

\* a flush removed an accepted message and kept a rejected one admitted before it
C6_Witness ==
    /\ call.request.calls = 1
    /\ call.raised = None
    /\ \E i, j \in 1..admitted : i < j /\ InQueue(i) /\ sent[j] = 1

\* C7: enqueue() calls put_records, once, exactly when the queue with the new message
\* holds at least 500 (scaled: FlushCount) messages or at least 5 MiB; when the count is
\* reached below 5 MiB, all the queue is submitted, and nothing is left if all is accepted.
C7_AutoFlush ==
    [][ (call'.op = "enqueue" /\ call'.raised # "ValueError") =>
          LET count == Len(_queue) + 1
              bytes == _bytes_in_queue + NewMessage.record_size
          IN  /\ call'.request.calls =
                    (IF count >= FlushCount \/ bytes >= 5 * 1024 * 1024 THEN 1 ELSE 0)
              /\ (count = FlushCount /\ bytes < 5 * 1024 * 1024) =>
                    /\ call'.request.count = FlushCount
                    /\ (call'.raised = None /\ last_batch_success_count' = FlushCount)
                          => _queue' = <<>> ]_vars

\* the enqueue() that filled the queue published all of it and all was accepted
C7_Witness ==
    /\ call.op = "enqueue"
    /\ call.request.calls = 1
    /\ call.request.count = FlushCount
    /\ last_batch_success_count = FlushCount
    /\ _queue = <<>>

\* C8: a flush() that returns, returns True exactly when the queue is not empty afterwards;
\* on an empty queue it returns False, does not call put_records, and changes neither the
\* queue nor the telemetry of the last batch.
C8_FlushReturn ==
    [][ call'.op = "flush" =>
          /\ call'.raised = None =>
                call'.retval = Bool(_queue' # <<>>)
          /\ _queue = <<>> =>
                /\ call'.raised = None
                /\ call'.retval = Bool(FALSE)
                /\ call'.request.calls = 0
                /\ UNCHANGED <<_queue, _bytes_in_queue, last_batch_size,
                               last_batch_success_count, last_batch_failure_messages>> ]_vars

\* flush() returned True: messages were rejected and are queued
C8_Witness ==
    /\ call.op = "flush"
    /\ call.retval = Bool(TRUE)
    /\ last_batch_success_count > 0
    /\ _queue # <<>>

FailedPositions(records) == { pos \in 1..Len(records) : records[pos].ErrorCode # None }

C10_QueueKeptOnFailure ==
    [][ call'.raised = "ClientError" =>
          /\ _queue' = QueueAtPublish
          /\ _bytes_in_queue' = SumSizes(QueueAtPublish)
          /\ call'.op = "flush" => UNCHANGED <<_queue, _bytes_in_queue>> ]_vars

\* put_records failed as a whole on a batch that left a remainder
C10_Witness ==
    /\ call.raised = "ClientError"
    /\ call.request.count > 0
    /\ Len(_queue) > call.request.count

\* C11, as stated: a put_records call that fails as a whole is never raised to the caller of
\* flush() or enqueue(); every call that reached put_records returns normally.
C11_RejectionNotRaised ==
    call.request.calls = 1 => call.raised = None

\* a first reader of a one-shard stream, reading from the start with a fetch limit below
\* the number of records in the shard
SingleShardFromStart ==
    /\ readers = 1
    /\ constructed.from_trim_horizon
    /\ DOMAIN stream = {0}
    /\ read_limit < stream[0]

\* the first n records of shard s, in the order of their sequence numbers
RecordsOf(s, n) == [ i \in 1..n |-> [ shard |-> s, sequence_number |-> i - 1 ] ]

\* C12: on a single shard of N records read from the start with a fetch limit below N, the
\* records returned by read() are the shard's records in increasing sequence-number order,
\* with no duplicate and no gap, also when a fetch raised ExpiredIteratorException; read()
\* does not raise, and a read() that returns None without an expired fetch comes after all
\* N records: reading until None returns exactly the N records.
C12_SingleShardInOrder ==
    SingleShardFromStart =>
        /\ Len(returned) <= stream[0]
        /\ returned = RecordsOf(0, Len(returned))
        /\ rcall.raised = None
        /\ (rcall.op = "read" /\ rcall.result = NoRecord /\ rcall.expired = << >>)
              => Len(returned) = stream[0]

\* all N records were returned although a fetch expired after the first returned record
C12_Witness ==
    /\ SingleShardFromStart
    /\ expiries = 1
    /\ _shards[0].ShardIteratorType = "AFTER_SEQUENCE_NUMBER"
    /\ Len(returned) = stream[0]

\* the Shard at index s as the constructor of this reader made it
Configured(s) == Shard(s, constructed.from_trim_horizon, constructed.from_offsets)

\* the get_shard_iterator request that a fetch on the Shard at index s has to make
Reissue(s) ==
    IF _shards[s].last_sequence_number # NoNumber
    THEN [ shard |-> s, ShardIteratorType |-> "AFTER_SEQUENCE_NUMBER",
           StartingSequenceNumber |-> _shards[s].last_sequence_number ]
    ELSE [ shard |-> s, ShardIteratorType |-> Configured(s).ShardIteratorType,
           StartingSequenceNumber |-> Configured(s).StartingSequenceNumber ]

\* C13: a read() in which get_records on a shard raises ExpiredIteratorException gets no
\* record from that shard and no error from it; the shard is left with no iterator, an
\* empty buffer and the last_sequence_number it had. A fetch on a shard that has no
\* iterator first requests one: AFTER_SEQUENCE_NUMBER at last_sequence_number if a record
\* of the shard has been returned, the position configured at construction otherwise; a
\* shard that has an iterator requests none.
C13_ExpiryRecovery ==
    [][ rcall'.op = "read" =>
          /\ \A s \in Range(rcall'.expired) :
                /\ rcall'.result.shard # s
                /\ _shards'[s]._current_shard_iterator = NoNumber
                /\ _shards'[s]._current_records = << >>
                /\ _shards'[s].last_sequence_number = _shards[s].last_sequence_number
                /\ rcall'.visited[Len(rcall'.visited)] = s
                      => rcall'.raised = None /\ rcall'.result = NoRecord
          /\ \A i \in DOMAIN rcall'.fetched :
                _shards[rcall'.fetched[i].shard]._current_shard_iterator = NoNumber
                  => \E j \in DOMAIN rcall'.cursors :
                        rcall'.cursors[j].shard = rcall'.fetched[i].shard
          /\ \A j \in DOMAIN rcall'.cursors :
                /\ _shards[rcall'.cursors[j].shard]._current_shard_iterator = NoNumber
                /\ rcall'.cursors[j] = Reissue(rcall'.cursors[j].shard) ]_rvars

\* after an expired fetch, a read() has requested an iterator after the last returned record
C13_Witness ==
    /\ expiries = 1
    /\ rcall.op = "read"
    /\ rcall.expired = << >>
    /\ rcall.cursors # << >>
    /\ rcall.cursors[1].ShardIteratorType = "AFTER_SEQUENCE_NUMBER"
    /\ rcall.cursors[1].StartingSequenceNumber # NoNumber
    /\ readers = 1

\* C14, as stated: while the most recently used shard has buffered records, read() returns
\* a record of that shard, calls read() of no other shard and fetches nothing.
C14_BufferedShardFirst ==
    [][ ( /\ rcall'.op = "read"
          /\ _current_shard # NoNumber
          /\ _shards[_current_shard]._current_records # << >> )
        => /\ rcall'.result.shard = _current_shard
           /\ rcall'.visited = << _current_shard >>
           /\ rcall'.fetched = << >> ]_rvars

\* C15, as stated: read() returns None only after it has called read() of every shard once,
\* in the order of _shards_to_read() (starting after the most recently used shard), and
\* every shard it visited without an expired fetch had nothing buffered and nothing left
\* to fetch.
C15_EmptyAfterFullRotation ==
    [][ ( /\ rcall'.op = "read"
          /\ rcall'.result = NoRecord
          /\ rcall'.raised = None )
        => /\ rcall'.visited = _shards_to_read(Reader)
           /\ \A s \in Range(rcall'.visited) \ Range(rcall'.expired) :
                 /\ _shards'[s]._current_records = << >>
                 /\ _shards'[s]._current_shard_iterator = stream[s] ]_rvars

\* every record stored in the stream has been returned by read() of this reader
AllReturned ==
    \A s \in DOMAIN stream : \A n \in 0..(stream[s] - 1) :
        \E i \in DOMAIN returned : returned[i] = [ shard |-> s, sequence_number |-> n ]

\* C16, as stated, in the form a finite run refutes: with no fetch error, a reader that
\* reads from the start serves every shard that holds undelivered records within one
\* rotation, so a read() returns None only when every stored record has been returned.
C16_NoShardStarved ==
    ( /\ readers = 1
      /\ constructed.from_trim_horizon
      /\ expiries = 0
      /\ rcall.op = "read"
      /\ rcall.result = NoRecord )
    => AllReturned

\* a first reader, reading from the start a stream whose shards hold one record each
OneRecordPerShard ==
    /\ readers = 1
    /\ constructed.from_trim_horizon
    /\ expiries = 0
    /\ \A s \in DOMAIN stream : stream[s] = 1

\* C17, as stated: on k shards of one record each, read from the start, 2k read() calls
\* have returned every record once, each from the shard after the one before it in the
\* list of shards, and the 2k-th call returned None.
C17_RoundRobin ==
    ( OneRecordPerShard /\ reads = 2 * Cardinality(DOMAIN stream) )
    => /\ AllReturned
       /\ Len(returned) = Cardinality(DOMAIN stream)
       /\ \A i \in 1..(Len(returned) - 1) :
             returned[i + 1].shard = (returned[i].shard + 1) % Cardinality(DOMAIN stream)
       /\ rcall.result = NoRecord

\* a first reader of a two-shard stream, reading from the start with a fetch limit that
\* covers each shard in one fetch
TwoShardsFromStart ==
    /\ readers = 1
    /\ constructed.from_trim_horizon
    /\ expiries = 0
    /\ DOMAIN stream = {0, 1}
    /\ read_limit >= stream[0]
    /\ read_limit >= stream[1]

\* C18, as stated: a fresh two-shard reader queries the first shard of the list first, and
\* returns the records of the first shard in sequence order, then those of the second
\* shard in sequence order, then None.
C18_FirstShardFirst ==
    TwoShardsFromStart
    => /\ reads = 1 => rcall.visited[1] = 0
       /\ Len(returned) <= stream[0] + stream[1]
       /\ returned = SubSeq(RecordsOf(0, stream[0]) \o RecordsOf(1, stream[1]), 1, Len(returned))
       /\ (rcall.op = "read" /\ rcall.result = NoRecord) => AllReturned

\* the positions in `returned' of the records of shard s
ReturnedFrom(s) == { i \in DOMAIN returned : returned[i].shard = s }

\* the sequence number of the record that read() returned last from shard s, if any
LastReturned(s) ==
    IF ReturnedFrom(s) = {} THEN NoNumber
    ELSE returned[CHOOSE i \in ReturnedFrom(s) : \A j \in ReturnedFrom(s) : j <= i].sequence_number

\* C19: shard_offsets() has an entry for every shard of the stream: the sequence number of
\* the record that read() returned last from that shard, None if it returned none. A
\* read() that returns None (nothing fetched, or an expired fetch) leaves every entry as it
\* is, a read() that returns a record changes the entry of that record's shard only, and no
\* entry ever moves back.
C19_ShardOffsets ==
    /\ [] ( /\ DOMAIN shard_offsets = DOMAIN stream
            /\ \A s \in DOMAIN stream : shard_offsets[s] = LastReturned(s) )
    /\ [][ rcall'.op = "read" =>
             /\ \A s \in DOMAIN stream :
                   /\ shard_offsets[s] # NoNumber => shard_offsets'[s] >= shard_offsets[s]
                   /\ rcall'.result.shard # s => shard_offsets'[s] = shard_offsets[s]
             /\ rcall'.result # NoRecord =>
                   shard_offsets'[rcall'.result.shard] = rcall'.result.sequence_number ]_rvars

\* records of two shards have been returned, and then a read() whose fetch expired
\* returned None
C19_Witness ==
    /\ rcall.op = "read"
    /\ rcall.result = NoRecord
    /\ rcall.expired # << >>
    /\ \E s, t \in DOMAIN stream :
          s # t /\ shard_offsets[s] # NoNumber /\ shard_offsets[t] # NoNumber

\* the records of shard s returned by the earlier readers and then by this reader
ReturnedOf(s) ==
    LET OfShard(record) == record.shard = s
    IN  SelectSeq(earlier \o returned, OfShard)

\* no duplicate and no gap among the records of each shard, in the order they were returned
NoDuplicateNoGap ==
    \A s \in DOMAIN stream : \A i \in 1..(Len(ReturnedOf(s)) - 1) :
        ReturnedOf(s)[i + 1].sequence_number = ReturnedOf(s)[i].sequence_number + 1

\* C20, as stated: a reader constructed with from_offsets = shard_offsets() of an earlier
\* reader resumes in every shard: its read() calls work, and the records of each shard
\* returned by the earlier reader and then by the new one have consecutive sequence
\* numbers, with no duplicate and no gap.
C20_ResumeFromOffsets ==
    readers > 1 =>
        /\ rcall.raised = None
        /\ NoDuplicateNoGap

\* the last element of a non-empty sequence
Last(seq) == seq[Len(seq)]

\* C21: a get_records failure other than the expiry of the iterator is raised by read(),
\* which returns no record; the failure leaves the failing shard's iterator (the one the
\* failed get_records was called with: the stored one, or the one issued just before the
\* fetch when the shard had none), buffer, last_sequence_number and millis_behind_latest
\* as they were. A fetch on a shard that has an iterator calls get_records with it, so a
\* later read() retries with the same iterator.
C21_FailureKeepsIterator ==
    [][ rcall'.op = "read" =>
          /\ rcall'.failed # << >> =>
                /\ rcall'.raised = OtherFailure
                /\ rcall'.result = NoRecord
                /\ rcall'.failed = << Last(rcall'.visited) >>
                /\ Last(rcall'.fetched).shard = Last(rcall'.visited)
                /\ \A s \in Range(rcall'.failed) :
                      /\ _shards'[s]._current_shard_iterator = Last(rcall'.fetched).ShardIterator
                      /\ _shards[s]._current_shard_iterator # NoNumber =>
                            _shards'[s]._current_shard_iterator = _shards[s]._current_shard_iterator
                      /\ _shards'[s]._current_records = _shards[s]._current_records
                      /\ _shards'[s].last_sequence_number = _shards[s].last_sequence_number
                      /\ _shards'[s].millis_behind_latest = _shards[s].millis_behind_latest
          /\ \A i \in DOMAIN rcall'.fetched :
                _shards[rcall'.fetched[i].shard]._current_shard_iterator # NoNumber =>
                    rcall'.fetched[i].ShardIterator =
                        _shards[rcall'.fetched[i].shard]._current_shard_iterator ]_rvars

\* after a failed read(), a read() has fetched again with the stored iterator and returned
\* a record of the shard that failed
C21_Witness ==
    /\ failures = 1
    /\ rcall.op = "read"
    /\ rcall.failed = << >>
    /\ rcall.cursors = << >>
    /\ rcall.fetched # << >>
    /\ rcall.result # NoRecord
    /\ rcall.result.shard = Last(rcall.fetched).shard
    /\ returned # << rcall.result >>

\* the largest of a non-empty set of numbers
Largest(S) == CHOOSE x \in S : \A y \in S : y <= x

\* C22: millis_behind_latest() returns None while a shard of the reader has not completed
\* a get_records call, and otherwise the largest of the MillisBehindLatest values that the
\* shards' last completed get_records calls returned; millis_behind_latest(by_shard=True)
\* returns for every shard id the MillisBehindLatest of that shard's last completed
\* get_records call, None for a shard that has completed none.
C22_MillisBehindLatest ==
    /\ millis_behind_latest(FALSE) =
          IF \E s \in DOMAIN behind : behind[s] = NoNumber
          THEN NoNumber
          ELSE Largest({ behind[s] : s \in DOMAIN behind })
    /\ DOMAIN millis_behind_latest(TRUE) = DOMAIN stream
    /\ \A s \in DOMAIN stream : millis_behind_latest(TRUE)[s] = behind[s]

\* every shard of a reader of three shards has completed a fetch, after an expired one;
\* the second shard is the one furthest behind
C22_Witness ==
    /\ DOMAIN _shards = 0..2
    /\ expiries = 1
    /\ \A s \in DOMAIN _shards : behind[s] # NoNumber
    /\ behind[1] > behind[0]
    /\ behind[1] > behind[2]
    /\ millis_behind_latest(FALSE) = behind[1]

\* C23: KinesisReader(...) on a stream whose StreamStatus is not ACTIVE raises an exception
\* whose message names the stream as the caller gave it and the status; the only call it
\* has made to the client is describe_stream_summary (no list_shards, no
\* get_shard_iterator), and there is no reader.
C23_NotActiveRaises ==
    (StreamStatus # "ACTIVE" /\ ccall # NoCall) =>
        /\ ccall.raised = "Exception"
        /\ ccall.message = [ stream |-> ccall.stream, status |-> StreamStatus ]
        /\ Len(ccall.requests) = 1
        /\ ccall.requests[1].op = "describe_stream_summary"
        /\ readers = 0
        /\ _shards = << >>
        /\ rcall.op = "none"

\* KinesisReader(client, "example") has raised on a stream that is being deleted
C23_Witness ==
    /\ StreamStatus = "DELETING"
    /\ Cardinality(DOMAIN stream) = 3
    /\ ccall.stream = TEST_STREAM_NAME
    /\ ccall.raised = "Exception"
    /\ ccall.message = [ stream |-> "example", status |-> "DELETING" ]

\* the shards that the responses to the list_shards calls among requests list, in order
RECURSIVE Listed(_)
Listed(requests) ==
    IF requests = << >>
    THEN << >>
    ELSE IF Head(requests).op = "list_shards"
    THEN list_shards(Head(requests)).Shards \o Listed(Tail(requests))
    ELSE Listed(Tail(requests))

\* C24, construction: KinesisReader(...) calls list_shards first without a token, then with
\* the NextToken of each response until a response has none; _shards holds one Shard per
\* listed shard, in the order listed, which are all the shards of the stream; no shard has
\* an iterator and get_shard_iterator was not called.
C24_Construction ==
    (readers = 0 /\ readers' = 1) =>
        LET requests == ccall'.requests
            listed   == Listed(requests)
        IN  /\ Len(requests) >= 2
            /\ requests[1].op = "describe_stream_summary"
            /\ \A i \in 2..Len(requests) :
                  /\ requests[i].op = "list_shards"
                  /\ requests[i].NextToken =
                        IF i = 2 THEN NoNumber ELSE list_shards(requests[i - 1]).NextToken
                  /\ (list_shards(requests[i]).NextToken = NoNumber) = (i = Len(requests))
            /\ DOMAIN _shards' = 0..(Len(listed) - 1)
            /\ \A i \in DOMAIN _shards' :
                  _shards'[i] = Shard(listed[i + 1].ShardId, constructed'.from_trim_horizon, NoOffsets)
            /\ { _shards'[i].shard_id : i \in DOMAIN _shards' } = DOMAIN stream
            /\ Cardinality(DOMAIN _shards') = Cardinality(DOMAIN stream)
            /\ \A i \in DOMAIN _shards' : _shards'[i]._current_shard_iterator = NoNumber

\* C24, reading: read() does not list the shards again; it calls get_shard_iterator for a
\* shard only when the shard has no stored iterator and is about to be fetched; a fetch of
\* a shard that has a stored iterator calls get_records with it; and after a fetch the
\* stored iterator is the NextShardIterator of the response (None after an expiry), while
\* the iterator of a shard that was not fetched stays as it was.
C24_Reading ==
    rcall'.op = "read" =>
        /\ ccall' = ccall
        /\ DOMAIN _shards' = DOMAIN _shards
        /\ \A s \in DOMAIN _shards : _shards'[s].shard_id = _shards[s].shard_id
        /\ \A i \in DOMAIN rcall'.cursors :
              /\ _shards[rcall'.cursors[i].shard]._current_shard_iterator = NoNumber
              /\ \E j \in DOMAIN rcall'.fetched : rcall'.fetched[j].shard = rcall'.cursors[i].shard
        /\ \A j \in DOMAIN rcall'.fetched :
              LET s == rcall'.fetched[j].shard
                  requested == { i \in DOMAIN rcall'.cursors : rcall'.cursors[i].shard = s }
              IN  /\ Cardinality({ i \in DOMAIN rcall'.fetched : rcall'.fetched[i].shard = s }) = 1
                  /\ IF _shards[s]._current_shard_iterator = NoNumber
                     THEN /\ Cardinality(requested) = 1
                          /\ \A i \in requested :
                                rcall'.fetched[j].ShardIterator = get_shard_iterator(rcall'.cursors[i])
                     ELSE /\ requested = {}
                          /\ rcall'.fetched[j].ShardIterator = _shards[s]._current_shard_iterator
                  /\ _shards'[s]._current_shard_iterator =
                        IF s \in Range(rcall'.expired)
                        THEN NoNumber
                        ELSE get_records(s, rcall'.fetched[j].ShardIterator).NextShardIterator
        /\ \A s \in DOMAIN _shards :
              (\A j \in DOMAIN rcall'.fetched : rcall'.fetched[j].shard # s) =>
                  _shards'[s]._current_shard_iterator = _shards[s]._current_shard_iterator

\* C24: the shard list is resolved once, by the constructor, following NextToken to the
\* last page, into one Shard per listed shard in list order; the constructor requests no
\* iterator; an iterator is requested only by a fetch of a shard whose stored iterator is
\* None (as it is before the shard's first fetch), and every other fetch calls get_records
\* with the NextShardIterator that the shard's previous fetch stored.
C24_ShardsAndIterators == [][ C24_Construction /\ C24_Reading ]_rvars

\* a reader of three shards that were listed one per page has read twice from a shard
\* with the iterator it had stored
C24_Witness ==
    /\ page_size = 1
    /\ Len(ccall.requests) = 4
    /\ DOMAIN _shards = 0..2
    /\ rcall.op = "read"
    /\ rcall.cursors = << >>
    /\ rcall.fetched # << >>
    /\ rcall.result # NoRecord
    /\ Len(returned) >= 2

\* C25: a get_records call that returns without error and with no record makes the read()
\* of its shard return nothing and raise nothing (KinesisReader.read then returns nothing,
\* or goes on to the next shard of the call, if there is one); the fetch stores the response's NextShardIterator
\* and MillisBehindLatest and leaves last_sequence_number and the empty buffer as they
\* were; when the call requested no iterator, no other field of the shard differs either.
C25_EmptyFetch ==
    [][ rcall'.op = "read" =>
          \A j \in DOMAIN rcall'.fetched :
              LET s        == rcall'.fetched[j].shard
                  response == get_records(s, rcall'.fetched[j].ShardIterator)
              IN  (s \notin Range(rcall'.expired) /\ response.Records = << >>) =>
                      /\ rcall'.result # NoRecord => rcall'.result.shard # s
                      /\ Last(rcall'.visited) = s =>
                            (rcall'.result = NoRecord /\ rcall'.raised = None)
                      /\ _shards[s]._current_records = << >>
                      /\ _shards'[s]._current_records = << >>
                      /\ _shards'[s].last_sequence_number = _shards[s].last_sequence_number
                      /\ _shards'[s]._current_shard_iterator = response.NextShardIterator
                      /\ _shards'[s].millis_behind_latest = response.MillisBehindLatest
                      /\ (\A i \in DOMAIN rcall'.cursors : rcall'.cursors[i].shard # s) =>
                            _shards'[s] = [ _shards[s] EXCEPT
                                              !._current_shard_iterator = response.NextShardIterator,
                                              !.millis_behind_latest = response.MillisBehindLatest ]
      ]_rvars

\* a read() that found nothing: its only fetch was on a shard whose records had all been
\* consumed, with the iterator stored by the fetch before
C25_Witness ==
    /\ rcall.op = "read"
    /\ rcall.result = NoRecord
    /\ rcall.raised = None
    /\ rcall.expired = << >>
    /\ rcall.cursors = << >>
    /\ Len(rcall.fetched) = 1
    /\ LET s == rcall.fetched[1].shard
       IN  /\ _shards[s].last_sequence_number = stream[s] - 1
           /\ _shards[s]._current_shard_iterator = stream[s]
           /\ _shards[s].millis_behind_latest = 0
           /\ stream[s] >= 2

\* the cumulative Data + PartitionKey length of a list of records
RECURSIVE CumulativeLength(_)
CumulativeLength(list) ==
    IF list = << >> THEN 0
    ELSE Head(list).Data + Head(list).PartitionKey + CumulativeLength(Tail(list))

\* C26: buildBatch/build_batch returns a batch of at most 500 (here BatchRecords) records
\* whose cumulative Data + PartitionKey length is at most 1048576; the batch followed by
\* the remainder is the input list, except that a first record which alone exceeds
\* 1048576 is dropped: the batch is empty and the remainder is the input without it.
C26_BatchWithinLimits ==
    built # NoBuilt =>
        /\ Len(built.toBeSent) <= BatchRecords
        /\ CumulativeLength(built.toBeSent) <= BatchBytes
        /\ IF built.input[1].Data + built.input[1].PartitionKey > BatchBytes
           THEN /\ built.toBeSent = << >>
                /\ built.toBeReturned = Tail(built.input)
           ELSE /\ built.toBeSent \o built.toBeReturned = built.input
                /\ built.toBeSent # << >>

\* build_batch has dropped a record that alone exceeds the limit, the third of the first
\* list, and other records are left
C26_Witness ==
    /\ built.by = "build_batch"
    /\ built.toBeSent = << >>
    /\ Len(built.toBeReturned) = Len(built.input) - 1
    /\ built.input[1].id = 3
    /\ pending # << >>

\* C27: every flush() on a non-empty queue (called by the user, or by enqueue() after it
\* appended its message) calls put_records with a non-empty prefix of the queue whose
\* cumulative record_size is strictly below 5 MiB; the messages after the prefix are the
\* remainder, which ends the queue after a response and which follows the batch in the
\* unchanged queue when put_records raises.
C27_NonEmptyPrefix ==
    [][ ((call'.op = "flush" /\ _queue # <<>>) \/ call'.request.calls = 1) =>
          LET before == QueueAtPublish
              n      == call'.request.count
              rest   == Len(before) - n
          IN  /\ call'.request.calls = 1
              /\ n >= 1
              /\ n <= Len(before)
              /\ call'.request.bytes = SumSizes(SubSeq(before, 1, n))
              /\ SumSizes(SubSeq(before, 1, n)) < 5 * 1024 * 1024
              /\ IF call'.raised = None
                 THEN /\ Len(_queue') >= rest
                      /\ SubSeq(_queue', Len(_queue') - rest + 1, Len(_queue')) =
                             SubSeq(before, n + 1, Len(before))
                 ELSE _queue' = SubSeq(before, 1, n) \o SubSeq(before, n + 1, Len(before)) ]_vars

\* a flush of a queue of at least 5 MiB has sent four records of 1 MiB and kept the rest
C27_Witness ==
    /\ call.request.calls = 1
    /\ call.raised = None
    /\ call.request.count = 4
    /\ call.request.bytes = 4 * MaxRecordSize
    /\ last_batch_success_count = 4
    /\ _queue # <<>>

\* C28, as stated: whenever enqueue() raises, from the validation of the message or from
\* the put_records call of its auto-flush, the queue and _bytes_in_queue are what they were
\* before the call.
C28_FailedEnqueueNotQueued ==
    [][ (call'.op = "enqueue" /\ call'.raised # None) =>
          UNCHANGED <<_queue, _bytes_in_queue>> ]_vars

\* C29, as stated: a reader that starts at the end of the stream (LATEST) returns from each
\* shard the records that were appended after the shard's first iterator was issued, with
\* no gap: the first record it returns from the shard is the one at the position of that
\* iterator and every later one follows the one before, also when a get_records call
\* raised ExpiredIteratorException before any record of the shard was returned.
C29_LatestNoGap ==
    (~constructed.from_trim_horizon /\ constructed.from_offsets = NoOffsets) =>
        \A s \in DOMAIN stream : \A i \in 1..Len(ReturnedOf(s)) :
            ReturnedOf(s)[i].sequence_number = first_cursor[s] + i - 1

\* C30: between the calls of enqueue() and flush(), _bytes_in_queue is the sum of
\* record_size over the messages in the queue, also after flushes in which put_records
\* rejected some or all of the records.
C30_BytesInQueue == _bytes_in_queue = SumSizes(_queue)

\* put_records has accepted some records of a batch and rejected others, a remainder was
\* put back behind them, and the queue holds more than 2 MiB
C30_Witness ==
    /\ call.request.calls = 1
    /\ call.raised = None
    /\ last_batch_success_count > 0
    /\ last_batch_size - last_batch_success_count >= 2
    /\ RemainderLength > 0
    /\ _bytes_in_queue > 2 * MaxRecordSize
    /\ _bytes_in_queue = SumSizes(_queue)

====
